---- MODULE Spec2Model ----
(***************************************************************************)
(* Shifter (src/Code.ts): a run of runSolver builds an integer program     *)
(* from the response table, the shift catalog and the configuration, asks  *)
(* the linear optimisation engine for a solution and writes the assigned   *)
(* display names into the output slots of the "Shifter" sheet.             *)
(* validateParams is the menu item Validate; generateShiftChainGraph       *)
(* (src/SwapChainGraph.ts) lists the swaps possible between shift columns. *)
(*                                                                         *)
(* Spreadsheet strings that the code only compares are TLA+ strings.       *)
(* Category cells, which the code searches with String.includes, are       *)
(* sequences of one-character strings.  JavaScript numbers are exact       *)
(* rationals extended with NaN and the infinities (see Fin, NaN, Inf).     *)
(***************************************************************************)
EXTENDS Integers, Sequences, FiniteSets, TLC

VARIABLES
  responses,           \* collectResponseArray(): header row, then one row per person
  catalog,             \* the rows of the "Shifts" named range below its header
  config,              \* collectConfig()
  sheet,               \* cells of the "Shifter" sheet: <<column, row>> -> [value, font]
  pc,                  \* position of the run inside runSolver
  shifts,              \* ShifterProblem.shifts
  currentAssignments,  \* ShifterProblem.currentAssignments
  opt,                 \* ShifterProblem.opt: what the engine has been told
  earliestTime,        \* ShifterProblem.earliestTime
  solution,            \* the LinearOptimizationSolution of prob.opt.solve(60)
  alert,               \* the last message shown with SpreadsheetApp.getUi().alert
  shiftCounters,       \* the shiftCounters of writeSolution when it returned
  sheetAtStart,        \* the sheet as it was when the run started
  runs,                \* number of runs started
  previous,            \* the run before this one: what it built, from what
  sheetData,           \* generateShiftChainGraph: the rows of the form responses sheet
  col,                 \* generateShiftChainGraph: the column the loop has reached
  swapsFromThis,       \* generateShiftChainGraph: querySwapsFrom(sheetData, col)
  edgeMatrix           \* generateShiftChainGraph: swaps counted per pair of columns

swapVars == <<sheetData, col, swapsFromThis, edgeMatrix>>

vars == <<responses, catalog, config, sheet, pc, shifts, currentAssignments,
          opt, earliestTime, solution, alert, shiftCounters, sheetAtStart, runs, previous,
          sheetData, col, swapsFromThis, edgeMatrix>>

-----------------------------------------------------------------------------
(* Bounds of the model *)

NumPeople == 2
NumShifts == 2
MaxRuns == 2
MaxTime == 3
MaxRows == 3
NumSwapRows == 3
NumSwapCols == 3

-----------------------------------------------------------------------------
(* Generic helpers *)

Range(f) == {f[x] : x \in DOMAIN f}

Min(S) == CHOOSE x \in S : \A y \in S : x <= y

Abs(n) == IF n < 0 THEN -n ELSE n

RECURSIVE GCD(_, _)
GCD(a, b) == IF b = 0 THEN a ELSE GCD(b, a % b)

RECURSIVE SumOver(_, _)
SumOver(S, f) ==
  IF S = {} THEN 0
  ELSE LET x == CHOOSE y \in S : TRUE IN f[x] + SumOver(S \ {x}, f)

\* the object `obj` after obj[key] = val
Put(obj, key, val) == [k \in DOMAIN obj \cup {key} |-> IF k = key THEN val ELSE obj[k]]

EmptyObject == [k \in {} |-> 0]

-----------------------------------------------------------------------------
(* JavaScript numbers: finite rationals num/den (den > 0, lowest terms),   *)
(* NaN, and the infinities (num is the sign).                              *)

NaN == [kind |-> "nan", num |-> 0, den |-> 1]

Inf(sign) == [kind |-> "inf", num |-> sign, den |-> 1]

Fin(n, d) ==
  LET s == IF d < 0 THEN -1 ELSE 1
      g == GCD(Abs(n), Abs(d))
  IN [kind |-> "fin", num |-> (s * n) \div g, den |-> Abs(d) \div g]

Sign(n) == IF n < 0 THEN -1 ELSE IF n > 0 THEN 1 ELSE 0

\* a / b
NumDiv(a, b) ==
  IF a.kind = "nan" \/ b.kind = "nan" THEN NaN
  ELSE IF a.kind = "inf" THEN (IF b.kind = "inf" THEN NaN
                               ELSE Inf(a.num * (IF b.num < 0 THEN -1 ELSE 1)))
  ELSE IF b.kind = "inf" THEN Fin(0, 1)
  ELSE IF b.num = 0 THEN (IF a.num = 0 THEN NaN ELSE Inf(Sign(a.num)))
  ELSE Fin(a.num * b.den, a.den * b.num)

\* a * b
NumMul(a, b) ==
  IF a.kind = "nan" \/ b.kind = "nan" THEN NaN
  ELSE IF a.kind = "inf" \/ b.kind = "inf"
       THEN (IF a.num = 0 \/ b.num = 0 THEN NaN ELSE Inf(Sign(a.num) * Sign(b.num)))
  ELSE Fin(a.num * b.num, a.den * b.den)

\* a + b
NumAdd(a, b) ==
  IF a.kind = "nan" \/ b.kind = "nan" THEN NaN
  ELSE IF a.kind = "inf" THEN (IF b.kind = "inf" /\ b.num # a.num THEN NaN ELSE a)
  ELSE IF b.kind = "inf" THEN b
  ELSE Fin(a.num * b.den + b.num * a.den, a.den * b.den)

\* a - b
NumSub(a, b) ==
  IF a.kind = "nan" \/ b.kind = "nan" THEN NaN
  ELSE IF a.kind = "inf" THEN (IF b.kind = "inf" /\ b.num = a.num THEN NaN ELSE a)
  ELSE IF b.kind = "inf" THEN Inf(-b.num)
  ELSE Fin(a.num * b.den - b.num * a.den, a.den * b.den)

\* a >= b; every comparison with NaN is false
NumGeq(a, b) ==
  IF a.kind = "nan" \/ b.kind = "nan" THEN FALSE
  ELSE IF a.kind = "inf" THEN a.num = 1 \/ (b.kind = "inf" /\ b.num = -1)
  ELSE IF b.kind = "inf" THEN b.num = -1
  ELSE a.num * b.den >= b.num * a.den

-----------------------------------------------------------------------------
(* Strings that are searched: sequences of characters *)

Lead == <<"L", "e", "a", "d">>
Helper == <<"H", "e", "l", "p", "e", "r">>
TeamLead == <<"T", "e", "a", "m">> \o Lead
Comma == <<",">>

\* String.prototype.includes
Includes(str, sub) ==
  \E i \in 0..(Len(str) - Len(sub)) : SubSeq(str, i + 1, i + Len(sub)) = sub

\* reqCategory.split(/\s*,\s*/) for a cell without white space
RECURSIVE Split(_)
Split(str) ==
  IF \A i \in DOMAIN str : str[i] # ","
  THEN <<str>>
  ELSE LET i == Min({j \in DOMAIN str : str[j] = ","})
       IN <<SubSeq(str, 1, i - 1)>> \o Split(SubSeq(str, i + 1, Len(str)))

-----------------------------------------------------------------------------
(* The program's tables and pure functions *)

\* Mutant: the tier Recommended does not carry the highlight flag
objectiveTiersRecommendedPlain ==
  [tier \in {"Available", "Preferred", "Recommended"} |->
     CASE tier = "Available" -> [obj |-> 0, green |-> FALSE]
       [] tier = "Preferred" -> [obj |-> 1, green |-> TRUE]
       [] tier = "Recommended" -> [obj |-> 3, green |-> FALSE]]

\* objectiveTiers
objectiveTiers ==
  [tier \in {"Available", "Preferred", "Recommended"} |->
     CASE tier = "Available" -> [obj |-> 0, green |-> FALSE]
       [] tier = "Preferred" -> [obj |-> 1, green |-> TRUE]
       [] tier = "Recommended" -> [obj |-> 3, green |-> TRUE]]

\* The value of a property name that is a canonical array index ("2", "10"),
\* -1 for any other name: JavaScript lists such properties first, ascending.
ArrayIndex(name) ==
  CASE name = "2" -> 2
    [] name = "10" -> 10
    [] OTHER -> -1

\* params[param.name] = param, with the property order of Object.keys
SetProperty(obj, name, param) ==
  LET idx == ArrayIndex(name)
      before == SelectSeq(obj.keys, LAMBDA k : ArrayIndex(k) >= 0 /\ ArrayIndex(k) < idx)
      after == SelectSeq(obj.keys, LAMBDA k : ArrayIndex(k) < 0 \/ ArrayIndex(k) > idx)
  IN [keys |-> IF name \in Range(obj.keys) THEN obj.keys
               ELSE IF idx >= 0 THEN before \o <<name>> \o after
               ELSE Append(obj.keys, name),
      val |-> Put(obj.val, name, param)]

\* collectParams: the catalog rows as an object keyed by shift name
RECURSIVE collectParams(_)
collectParams(paramsData) ==
  IF paramsData = <<>> THEN [keys |-> <<>>, val |-> EmptyObject]
  ELSE LET n == Len(paramsData)
       IN SetProperty(collectParams(SubSeq(paramsData, 1, n - 1)),
                      paramsData[n].name, paramsData[n])

\* getVariableName
getVariableName(person, shift) == person \o "_" \o shift

\* The rows of people: responses[0] is the header row
PersonRows == 2..Len(responses)

idOf(row) == responses[row][config.idColumn]

displayNameOf(row) == responses[row][config.displayColumn]

\* ShifterProblem.isCategoryPermitted
isCategoryPermitted(responseRow, category) ==
  IF "Category" \notin DOMAIN responseRow THEN TRUE
  ELSE IF responseRow["Category"] = <<>> THEN TRUE
  ELSE Includes(responseRow["Category"], category)

\* this.earliestTime ??= min over the rows' submission times
EarliestTime ==
  IF earliestTime.set THEN earliestTime.val
  ELSE Min({responses[row]["Time"] : row \in PersonRows})

\* Mutant: a submission at the deadline counts as late
scaleSubmissionTimeLateAtDeadline(time) ==
  IF ~config.timeScale.set THEN Fin(1, 1)
  ELSE LET deadline == config.timeScale.deadline
       IN IF time >= deadline THEN config.timeScale.latePriority
          ELSE NumSub(Fin(1, 1),
                      NumMul(NumDiv(Fin(time - EarliestTime, 1),
                                    Fin(deadline - EarliestTime, 1)),
                             NumSub(Fin(1, 1), config.timeScale.minOnTimePriority)))

\* Mutant: the interpolation runs from minOnTimePriority up to 1
scaleSubmissionTimeReversed(time) ==
  IF ~config.timeScale.set THEN Fin(1, 1)
  ELSE LET deadline == config.timeScale.deadline
       IN IF time > deadline THEN config.timeScale.latePriority
          ELSE NumSub(Fin(1, 1),
                      NumMul(NumDiv(Fin(deadline - time, 1),
                                    Fin(deadline - EarliestTime, 1)),
                             NumSub(Fin(1, 1), config.timeScale.minOnTimePriority)))

\* ShifterProblem.scaleSubmissionTimeToWeight
scaleSubmissionTimeToWeight(time) ==
  IF ~config.timeScale.set THEN Fin(1, 1)
  ELSE LET deadline == config.timeScale.deadline
       IN IF time > deadline THEN config.timeScale.latePriority
          ELSE NumSub(Fin(1, 1),
                      NumMul(NumDiv(Fin(time - EarliestTime, 1),
                                    Fin(deadline - EarliestTime, 1)),
                             NumSub(Fin(1, 1), config.timeScale.minOnTimePriority)))

\* The value of a cell; a cell never written is blank
CellValue(sh, cell) == IF cell \in DOMAIN sh THEN sh[cell].value ELSE ""

CellFont(sh, cell) == IF cell \in DOMAIN sh THEN sh[cell].font ELSE "null"

\* displayNameMapping of readCurrentAssignments: built from every row of
\* responses, the header row included; a later row replaces an earlier one
\* with the same display name
displayNameMapping ==
  [name \in {displayNameOf(row) : row \in DOMAIN responses} |->
     idOf(CHOOSE row \in DOMAIN responses :
            /\ displayNameOf(row) = name
            /\ \A other \in DOMAIN responses :
                 displayNameOf(other) = name => other <= row)]

\* The loop of readCurrentAssignments down one shift's output column
RECURSIVE ReadDown(_, _)
ReadDown(sh, cell) ==
  IF CellValue(sh, cell) \in DOMAIN displayNameMapping
  THEN <<displayNameMapping[CellValue(sh, cell)]>>
         \o ReadDown(sh, <<cell[1], cell[2] + 1>>)
  ELSE <<>>

\* readCurrentAssignments
readCurrentAssignments(sh, shiftsObj) ==
  [shiftName \in Range(shiftsObj.keys) |->
     ReadDown(sh, shiftsObj.val[shiftName].outputRange)]

-----------------------------------------------------------------------------
(* validateParams, the menu item Validate *)

\* expectedShifts: the Shift column of the catalog rows
expectedShifts == [j \in DOMAIN catalog |-> catalog[j].name]

\* knownCategories: the Category cells of the catalog rows
knownCategories == {catalog[j].category : j \in DOMAIN catalog}

\* validAvailability
validAvailability == {"Unavailable"} \cup DOMAIN objectiveTiers

\* responseData[row].join('').trim().length > 0 fails: every cell of the row
\* is empty (a Category cell is a string of characters, a Time cell a date)
RowIsBlank(row) ==
  \A h \in DOMAIN responses[row] :
    IF h = "Category" THEN responses[row][h] = <<>>
    ELSE IF h = "Time" THEN FALSE
    ELSE responses[row][h] = ""

\* The error thrown by the body of the loop over the response rows for one
\* row, "" if the row passes; idSet and nameSet hold the rows before it
RowError(row, idSet, nameSet) ==
  LET available == {j \in DOMAIN expectedShifts :
                      responses[row][expectedShifts[j]] # "Unavailable"}
      reqCategory == responses[row]["Category"]
  IN IF idOf(row) = "" THEN "The selected worker ID is missing"
     ELSE IF displayNameOf(row) = "" THEN "The selected worker display name value is missing"
     ELSE IF \E j \in DOMAIN expectedShifts :
               responses[row][expectedShifts[j]] \notin validAvailability
       THEN "The selected worker availability value is invalid"
     ELSE IF available = {}
       THEN displayNameOf(row) \o " (" \o idOf(row) \o ") is not available for any shift"
     ELSE IF idOf(row) \in idSet
       THEN "The ID " \o idOf(row) \o " is duplicated in the responses"
     ELSE IF displayNameOf(row) \in nameSet
       THEN "The display name " \o displayNameOf(row) \o " is duplicated in the responses"
     ELSE IF /\ "Category" \in DOMAIN responses[row]
             /\ reqCategory # <<>>
             /\ \E i \in DOMAIN Split(reqCategory) : Split(reqCategory)[i] \notin knownCategories
       THEN "The mentioned category in the selected cell is unknown"
     ELSE ""

\* The loop over the response rows from `row` on: it ends at the end of the
\* data, at the first blank row or at the first error
RECURSIVE ValidateRows(_, _, _)
ValidateRows(row, idSet, nameSet) ==
  IF row > Len(responses) \/ RowIsBlank(row) THEN [error |-> "", nameSet |-> nameSet]
  ELSE IF RowError(row, idSet, nameSet) # ""
    THEN [error |-> RowError(row, idSet, nameSet), nameSet |-> nameSet]
  ELSE ValidateRows(row + 1, idSet \cup {idOf(row)}, nameSet \cup {displayNameOf(row)})

\* /[a-zA-Z]/.test(value) on the cell values of the model: of these only the
\* empty cell and the number 42 hold no letter
HasLetter(value) == value \notin {"", "42"}

\* while (nameSet.has(assignTo?.getValue())) assignTo = the cell below
RECURSIVE SkipNames(_, _, _)
SkipNames(sh, cell, nameSet) ==
  IF CellValue(sh, cell) \in nameSet THEN SkipNames(sh, <<cell[1], cell[2] + 1>>, nameSet)
  ELSE cell

\* The check of the existing schedule when Additive is TRUE, from catalog row
\* j on
RECURSIVE ExistingScheduleError(_, _)
ExistingScheduleError(j, nameSet) ==
  IF j > Len(catalog) THEN ""
  ELSE LET assignTo == SkipNames(sheet, catalog[j].outputRange, nameSet)
       IN IF HasLetter(CellValue(sheet, assignTo))
          THEN CellValue(sheet, assignTo) \o
                 " exists in the current schedule but not in the availability responses"
          ELSE ExistingScheduleError(j + 1, nameSet)

\* The first error of the checks on the catalog rows, "" if there is none
RECURSIVE ParamError(_)
ParamError(j) ==
  IF j > Len(catalog) THEN ""
  ELSE IF catalog[j].hours <= 0
    THEN "The number of hours for " \o catalog[j].name \o " must be a positive real number"
  ELSE IF catalog[j].min > catalog[j].max
    THEN "The selected cell's shift has its Minimum assigned higher than Maximum assigned"
  ELSE ParamError(j + 1)

\* The message validateParams shows. The sheets, named ranges and catalog
\* headers of the model exist and its cells have the type of their column, so
\* the checks on a missing range and on a cell's type or format pass.
ValidationMessage ==
  LET header == responses[1]
      rows == ValidateRows(2, {}, {})
  IN IF config.minHours < 0 THEN "The MinHours parameter is negative or not a number"
     ELSE IF config.maxHours < 0 THEN "The MaxHours parameter is negative or not a number"
     ELSE IF config.maxHours < config.minHours
       THEN "The MaxHours parameter is less than the MinHours parameter"
     ELSE IF \E j \in DOMAIN expectedShifts : expectedShifts[j] \notin DOMAIN header
       THEN "You are missing response columns for the specified shifts"
     ELSE IF ParamError(1) # "" THEN ParamError(1)
     ELSE IF config.idColumn \notin DOMAIN header
       THEN "You are missing the " \o config.idColumn \o " response column"
     ELSE IF config.displayColumn \notin DOMAIN header
       THEN "You are missing the " \o config.displayColumn \o " response column"
     ELSE IF config.timeScale.set /\ "Time" \notin DOMAIN header
       THEN "You are missing the Time response column"
     ELSE IF rows.error # "" THEN rows.error
     ELSE IF config.additive /\ ExistingScheduleError(1, rows.nameSet) # ""
       THEN ExistingScheduleError(1, rows.nameSet)
     ELSE "Looks good!"

-----------------------------------------------------------------------------
(* The swap chain graph (src/SwapChainGraph.ts) *)

\* The shift columns of the form responses sheet: 11 to 29 in the source
SwapFirstCol == 11
SwapLastCol == SwapFirstCol + NumSwapCols - 1

\* formatRowToName
formatRowToName(row) == row[2] \o " " \o row[3] \o " " \o row[5]

\* The elements of a sequence in the order of their first occurrence: the
\* insertion order of a Set or of the keys of a Map
RECURSIVE Distinct(_)
Distinct(seq) ==
  IF seq = <<>> THEN <<>>
  ELSE LET n == Len(seq)
           front == Distinct(SubSeq(seq, 1, n - 1))
       IN IF seq[n] \in Range(front) THEN front ELSE Append(front, seq[n])

\* The (row, otherCol) pairs in the order the loops of querySwapsFrom and
\* fillOutMaps visit them: rows from 1 (the second row of the data), otherCol
\* from col + 1 to the last shift column
OutwardPairs(data, fromCol) ==
  LET width == SwapLastCol - fromCol
  IN [k \in 1..((Len(data) - 1) * width) |->
        <<2 + ((k - 1) \div width), fromCol + 1 + ((k - 1) % width)>>]

\* The insertions fillOutMaps makes into availableOut (tier "Available") or
\* preferredOut (tier "Preferred")
OutInsertions(data, fromCol, tier) ==
  SelectSeq(OutwardPairs(data, fromCol),
            LAMBDA pair : /\ data[pair[1]][fromCol] = "Assigned"
                          /\ data[pair[1]][pair[2]] = tier)

\* availableOut.keys() / preferredOut.keys()
OutKeys(data, fromCol, tier) ==
  Distinct([i \in DOMAIN OutInsertions(data, fromCol, tier) |->
              OutInsertions(data, fromCol, tier)[i][2]])

\* availableOut.get(otherCol) / preferredOut.get(otherCol)
OutNames(data, fromCol, tier, otherCol) ==
  LET into == SelectSeq(OutInsertions(data, fromCol, tier), LAMBDA pair : pair[2] = otherCol)
  IN Distinct([i \in DOMAIN into |-> formatRowToName(data[into[i][1]])])

\* availableRows: 1 for a row that is Preferred for the column, 0 for one
\* that is Available
availableRows(data, fromCol) ==
  [row \in {r \in 2..Len(data) : data[r][fromCol] \in {"Preferred", "Available"}} |->
     IF data[row][fromCol] = "Preferred" THEN 1 ELSE 0]

\* Mutant: a fromPerson who prefers the other shift adds nothing
listPossibleSwapsToColPlain(data, fromCol, toCol, row) ==
  IF data[row][toCol] = "Assigned" /\ row \in DOMAIN availableRows(data, fromCol)
  THEN LET toPerson == formatRowToName(data[row])
           rank == availableRows(data, fromCol)[row]
           fromAvailable == OutNames(data, fromCol, "Available", toCol)
           fromPreferred == OutNames(data, fromCol, "Preferred", toCol)
       IN [i \in DOMAIN fromAvailable |->
             [fromPerson |-> fromAvailable[i], toPerson |-> toPerson, preference |-> rank]]
          \o [i \in DOMAIN fromPreferred |->
                [fromPerson |-> fromPreferred[i], toPerson |-> toPerson, preference |-> rank]]
  ELSE <<>>

\* The body of the loop of listPossibleSwapsToCol for one row
listPossibleSwapsToColRow(data, fromCol, toCol, row) ==
  IF data[row][toCol] = "Assigned" /\ row \in DOMAIN availableRows(data, fromCol)
  THEN LET toPerson == formatRowToName(data[row])
           rank == availableRows(data, fromCol)[row]
           fromAvailable == OutNames(data, fromCol, "Available", toCol)
           fromPreferred == OutNames(data, fromCol, "Preferred", toCol)
       IN [i \in DOMAIN fromAvailable |->
             [fromPerson |-> fromAvailable[i], toPerson |-> toPerson, preference |-> rank]]
          \o [i \in DOMAIN fromPreferred |->
                [fromPerson |-> fromPreferred[i], toPerson |-> toPerson,
                 preference |-> rank + 1]]
  ELSE <<>>

\* listPossibleSwapsToCol, from a row on, each swap with its column
RECURSIVE listPossibleSwapsToCol(_, _, _, _)
listPossibleSwapsToCol(data, fromCol, toCol, row) ==
  IF row > Len(data) THEN <<>>
  ELSE LET swaps == listPossibleSwapsToColRow(data, fromCol, toCol, row)
       IN [i \in DOMAIN swaps |->
             [col |-> toCol, fromPerson |-> swaps[i].fromPerson,
              toPerson |-> swaps[i].toPerson, preference |-> swaps[i].preference]]
          \o listPossibleSwapsToCol(data, fromCol, toCol, row + 1)

\* flatMap over the columns
RECURSIVE SwapsToCols(_, _, _)
SwapsToCols(data, fromCol, cols) ==
  IF cols = <<>> THEN <<>>
  ELSE listPossibleSwapsToCol(data, fromCol, Head(cols), 2)
         \o SwapsToCols(data, fromCol, Tail(cols))

\* querySwapsFrom
querySwapsFrom(data, fromCol) ==
  SwapsToCols(data, fromCol,
              Distinct(OutKeys(data, fromCol, "Available") \o OutKeys(data, fromCol, "Preferred")))

\* ++edgeMatrix[col - 11][swap.col - 11]; ++edgeMatrix[swap.col - 11][col - 11]
RECURSIVE CountEdges(_, _, _)
CountEdges(matrix, fromCol, swaps) ==
  IF swaps = <<>> THEN matrix
  ELSE LET toCol == Head(swaps).col
           once == [matrix EXCEPT ![<<fromCol, toCol>>] = @ + 1]
       IN CountEdges([once EXCEPT ![<<toCol, fromCol>>] = @ + 1], fromCol, Tail(swaps))

-----------------------------------------------------------------------------
(* The engine (LinearOptimizationService) as the program uses it *)

NewEngine == [variables |-> <<>>, objective |-> <<>>, constraints |-> <<>>]

\* constraint.setCoefficient(name, weight), call after call
RECURSIVE SetCoefficients(_)
SetCoefficients(calls) ==
  IF calls = <<>> THEN EmptyObject
  ELSE LET n == Len(calls)
       IN Put(SetCoefficients(SubSeq(calls, 1, n - 1)), calls[n][1], calls[n][2])

\* The left-hand side of a constraint under an assignment of the variables
ConstraintSum(engine, c, value) ==
  SumOver(DOMAIN c.coefficients \cap Range(engine.variables),
          [name \in DOMAIN c.coefficients \cap Range(engine.variables) |->
             c.coefficients[name] * value[name]])

\* Mutant: a constraint without terms is not enforced
SatisfiesUnlessEmpty(engine, c, value) ==
  \/ DOMAIN c.coefficients = {}
  \/ /\ c.lower <= ConstraintSum(engine, c, value)
     /\ ConstraintSum(engine, c, value) <= c.upper

Satisfies(engine, c, value) ==
  /\ c.lower <= ConstraintSum(engine, c, value)
  /\ ConstraintSum(engine, c, value) <= c.upper

\* Mutant: the variables added with addVariable(name, 0, 2, INTEGER)
ValidSolutionsUpperTwo(engine) ==
  {value \in [Range(engine.variables) -> {0, 1, 2}] :
     \A i \in DOMAIN engine.constraints : Satisfies(engine, engine.constraints[i], value)}

\* The assignments the engine may report as valid: every variable was added
\* with addVariable(name, 0, 1, INTEGER)
ValidSolutions(engine) ==
  {value \in [Range(engine.variables) -> {0, 1}] :
     \A i \in DOMAIN engine.constraints : Satisfies(engine, engine.constraints[i], value)}

\* The objective coefficient of a variable: the last one set for its name
ObjectiveOf(engine, name) ==
  LET calls == {i \in DOMAIN engine.objective : engine.objective[i].name = name}
  IN engine.objective[CHOOSE i \in calls : \A j \in calls : j <= i].weight

\* The objective of an assignment: the sum of coefficient times value over
\* the variables, from the i-th variable on
RECURSIVE ObjectiveFrom(_, _, _)
ObjectiveFrom(engine, value, i) ==
  IF i > Len(engine.variables) THEN Fin(0, 1)
  ELSE NumAdd(NumMul(ObjectiveOf(engine, engine.variables[i]),
                     Fin(value[engine.variables[i]], 1)),
              ObjectiveFrom(engine, value, i + 1))

\* Mutant: the engine minimises (setMinimization)
OptimalSolutionsMinimising(engine) ==
  {value \in ValidSolutions(engine) :
     \A other \in ValidSolutions(engine) :
       NumGeq(ObjectiveFrom(engine, other, 1), ObjectiveFrom(engine, value, 1))}

\* The valid assignments of the greatest objective: this.opt.setMaximization()
OptimalSolutions(engine) ==
  {value \in ValidSolutions(engine) :
     \A other \in ValidSolutions(engine) :
       NumGeq(ObjectiveFrom(engine, value, 1), ObjectiveFrom(engine, other, 1))}

\* solution.getVariableValue(name)
getVariableValue(sol, name) ==
  IF name \in DOMAIN sol.value THEN sol.value[name] ELSE 0

NoSolution == [valid |-> FALSE, value |-> EmptyObject]

-----------------------------------------------------------------------------
(* The loops of ShifterProblem *)

\* for (row ...) for (const paramName of Object.keys(this.shifts)): the
\* (row, shift name) pairs in the order the loops visit them
RowShiftPairs ==
  LET k == Len(shifts.keys)
  IN [i \in 1..((Len(responses) - 1) * k) |->
        <<2 + ((i - 1) \div k), shifts.keys[((i - 1) % k) + 1]>>]

\* Mutant: people who submitted after the deadline are left out of the model
EligibleOnTime(row, shiftName) ==
  /\ responses[row][shiftName] # "Unavailable"
  /\ isCategoryPermitted(responses[row], shifts.val[shiftName].category)
  /\ config.timeScale.set => responses[row]["Time"] <= config.timeScale.deadline

\* The test that guards addVariable and both kinds of setCoefficient
Eligible(row, shiftName) ==
  /\ responses[row][shiftName] # "Unavailable"
  /\ isCategoryPermitted(responses[row], shifts.val[shiftName].category)

\* The objective coefficient makeAvailabilityVariables sets for a pair
ObjectiveWeight(row, shiftName) ==
  LET tier == objectiveTiers[responses[row][shiftName]]
  IN IF ~config.timeScale.set THEN Fin(tier.obj, 1)
     ELSE NumMul(Fin(tier.obj, 1), scaleSubmissionTimeToWeight(responses[row]["Time"]))

\* The pairs for which makeAvailabilityVariables sets an objective coefficient
Scored(pair) ==
  /\ isCategoryPermitted(responses[pair[1]], shifts.val[pair[2]].category)
  /\ responses[pair[1]][pair[2]] \in DOMAIN objectiveTiers

\* Mutant: setCoefficient(varName, 1) in place of the shift's hours
HoursConstraintUnitWeights(row) ==
  LET mine == SelectSeq(shifts.keys, LAMBDA shiftName : Eligible(row, shiftName))
  IN [lower |-> config.minHours, upper |-> config.maxHours,
      coefficients |->
        SetCoefficients([i \in DOMAIN mine |-> <<getVariableName(idOf(row), mine[i]), 1>>])]

\* The constraint constrainHoursPerPerson adds for one row
HoursConstraint(row) ==
  LET mine == SelectSeq(shifts.keys, LAMBDA shiftName : Eligible(row, shiftName))
  IN [lower |-> config.minHours, upper |-> config.maxHours,
      coefficients |->
        SetCoefficients([i \in DOMAIN mine |->
                           <<getVariableName(idOf(row), mine[i]), shifts.val[mine[i]].hours>>])]

\* Mutant: addConstraint(0, param.max)
CountConstraintNoMinimum(shiftName) ==
  LET rows == SelectSeq([i \in 1..(Len(responses) - 1) |-> i + 1],
                        LAMBDA row : Eligible(row, shiftName))
  IN [lower |-> 0, upper |-> shifts.val[shiftName].max,
      coefficients |->
        SetCoefficients([i \in DOMAIN rows |->
                           <<getVariableName(idOf(rows[i]), shiftName), 1>>])]

\* Mutant: one person more than the maximum headcount is allowed
CountConstraintOneOver(shiftName) ==
  LET rows == SelectSeq([i \in 1..(Len(responses) - 1) |-> i + 1],
                        LAMBDA row : Eligible(row, shiftName))
  IN [lower |-> shifts.val[shiftName].min, upper |-> shifts.val[shiftName].max + 1,
      coefficients |->
        SetCoefficients([i \in DOMAIN rows |->
                           <<getVariableName(idOf(rows[i]), shiftName), 1>>])]

\* The constraint constrainCountPerShift adds for one shift
CountConstraint(shiftName) ==
  LET rows == SelectSeq([i \in 1..(Len(responses) - 1) |-> i + 1],
                        LAMBDA row : Eligible(row, shiftName))
  IN [lower |-> shifts.val[shiftName].min, upper |-> shifts.val[shiftName].max,
      coefficients |->
        SetCoefficients([i \in DOMAIN rows |->
                           <<getVariableName(idOf(rows[i]), shiftName), 1>>])]

\* The setCoefficient calls of constrainExistingAssignmentsIfAdditive
RECURSIVE ExistingCalls(_)
ExistingCalls(keys) ==
  IF keys = <<>> THEN <<>>
  ELSE LET ids == currentAssignments.val[Head(keys)]
       IN [i \in DOMAIN ids |-> <<getVariableName(ids[i], Head(keys)), 1>>]
            \o ExistingCalls(Tail(keys))

\* existingAssignmentCount
RECURSIVE existingAssignmentCount(_)
existingAssignmentCount(keys) ==
  IF keys = <<>> THEN 0
  ELSE Len(currentAssignments.val[Head(keys)]) + existingAssignmentCount(Tail(keys))

\* Mutant: addConstraint(0, existingAssignmentCount)
ExistingConstraintAtMost ==
  [lower |-> 0,
   upper |-> existingAssignmentCount(shifts.keys),
   coefficients |-> SetCoefficients(ExistingCalls(shifts.keys))]

ExistingConstraint ==
  [lower |-> existingAssignmentCount(shifts.keys),
   upper |-> existingAssignmentCount(shifts.keys),
   coefficients |-> SetCoefficients(ExistingCalls(shifts.keys))]

\* The body of writeSolution's loops from pair i on, with the sheet and the
\* shiftCounters reached so far
RECURSIVE WriteLoop(_, _, _, _)
WriteLoop(sol, i, sh, counters) ==
  IF i > Len(RowShiftPairs) THEN [sheet |-> sh, shiftCounters |-> counters]
  ELSE LET row == RowShiftPairs[i][1]
           paramName == RowShiftPairs[i][2]
           param == shifts.val[paramName]
           count == IF paramName \in DOMAIN counters THEN counters[paramName] ELSE 0
           nameRange == <<param.outputRange[1], param.outputRange[2] + count>>
           response == responses[row][paramName]
           green == /\ config.preferredGreen
                    /\ response \in DOMAIN objectiveTiers
                    /\ objectiveTiers[response].green
       IN IF Eligible(row, paramName)
             /\ getVariableValue(sol, getVariableName(idOf(row), paramName)) > 0
          THEN WriteLoop(sol, i + 1,
                         Put(sh, nameRange,
                             [value |-> displayNameOf(row),
                              font |-> IF green THEN "#47882b" ELSE "null"]),
                         Put(counters, paramName, count + 1))
          ELSE WriteLoop(sol, i + 1, sh, counters)

\* Mutant: a name is written at the offset of its table row, not at the
\* shift's counter
RECURSIVE WriteLoopByRow(_, _, _, _)
WriteLoopByRow(sol, i, sh, counters) ==
  IF i > Len(RowShiftPairs) THEN [sheet |-> sh, shiftCounters |-> counters]
  ELSE LET row == RowShiftPairs[i][1]
           paramName == RowShiftPairs[i][2]
           param == shifts.val[paramName]
           count == IF paramName \in DOMAIN counters THEN counters[paramName] ELSE 0
           nameRange == <<param.outputRange[1], param.outputRange[2] + (row - 2)>>
           response == responses[row][paramName]
           green == /\ config.preferredGreen
                    /\ response \in DOMAIN objectiveTiers
                    /\ objectiveTiers[response].green
       IN IF Eligible(row, paramName)
             /\ getVariableValue(sol, getVariableName(idOf(row), paramName)) > 0
          THEN WriteLoopByRow(sol, i + 1,
                              Put(sh, nameRange,
                                  [value |-> displayNameOf(row),
                                   font |-> IF green THEN "#47882b" ELSE "null"]),
                              Put(counters, paramName, count + 1))
          ELSE WriteLoopByRow(sol, i + 1, sh, counters)

writeSolutionByRow(sol) == WriteLoopByRow(sol, 1, sheet, EmptyObject)

\* ShifterProblem.writeSolution
writeSolution(sol) == WriteLoop(sol, 1, sheet, EmptyObject)

-----------------------------------------------------------------------------
(* The inputs of the model *)

PersonIds == <<"p1", "p2", "p3", "p4">>
DisplayNames == <<"Ann", "Bob", "Cy", "Dee">>
ShiftNames == <<"AM", "PM", "Eve", "Night">>

People == 1..NumPeople
ShiftIndexes == 1..NumShifts

NoTimeScale ==
  [set |-> FALSE, deadline |-> 0, minOnTimePriority |-> Fin(1, 1), latePriority |-> Fin(0, 1)]

\* Two settings of the Deadline, MinOnTimePriority and LatePriority ranges
HalfDecay ==
  [set |-> TRUE, deadline |-> 1, minOnTimePriority |-> Fin(1, 2), latePriority |-> Fin(0, 1)]

RisingDecay ==
  [set |-> TRUE, deadline |-> 2, minOnTimePriority |-> Fin(2, 1), latePriority |-> Fin(1, 4)]

Undefined == [defined |-> FALSE, val |-> EmptyObject]

NotCached == [set |-> FALSE, val |-> 0]

\* Before the first run there is no earlier run to compare with
NoPrevious ==
  [ran |-> FALSE, opt |-> NewEngine, config |-> EmptyObject, sheetAtStart |-> EmptyObject,
   pc |-> "start", solution |-> NoSolution]

\* The header row and the person rows of a response sheet whose shift columns
\* are `names`: tiers[p][j] is the availability of person p for shift
\* names[j]; extra maps the other columns ("Category", "Time") to the value of
\* each person
ResponseArrayFor(names, tiers, extra) ==
  LET headers == {"ID", "Name"} \cup Range(names) \cup DOMAIN extra
      PersonRow(p) ==
        [h \in headers |->
           IF h = "ID" THEN PersonIds[p]
           ELSE IF h = "Name" THEN DisplayNames[p]
           ELSE IF h \in DOMAIN extra THEN extra[h][p]
           ELSE tiers[p][CHOOSE j \in DOMAIN names : names[j] = h]]
  IN <<[h \in headers |-> h]>> \o [p \in DOMAIN tiers |-> PersonRow(p)]

\* The response sheet with the shift columns ShiftNames[1..NumShifts]
ResponseArray(tiers, extra) ==
  ResponseArrayFor(SubSeq(ShiftNames, 1, NumShifts), tiers, extra)

\* The rows of the Shifts range for the shifts `names`: shift j writes from
\* row 1 of column j
CatalogFor(names, categories, counts) ==
  [j \in DOMAIN names |->
     [name |-> names[j], category |-> categories[j],
      min |-> counts[j][1], max |-> counts[j][2],
      hours |-> IF j % 2 = 1 THEN 4 ELSE 2,
      outputRange |-> <<j, 1>>]]

Catalog(categories, counts) ==
  CatalogFor(SubSeq(ShiftNames, 1, NumShifts), categories, counts)

\* A sheet whose output column j holds the names columns[j] from row 1 down,
\* in the green an earlier run left
SheetOf(columns) ==
  [cell \in {<<j, r>> : j \in DOMAIN columns, r \in 1..NumPeople} \cap
            {c \in (DOMAIN columns) \X (1..NumPeople) : c[2] <= Len(columns[c[1]])} |->
     [value |-> columns[cell[1]][cell[2]], font |-> "#47882b"]]

\* What the output column of a shift may hold before the first run: nothing,
\* names of people, a name twice, the header of the display column, a name
\* that is in no row
ColumnContents ==
  {<<>>, <<DisplayNames[1]>>, <<DisplayNames[2]>>, <<DisplayNames[1], DisplayNames[2]>>,
   <<DisplayNames[1], DisplayNames[1]>>, <<"Name">>, <<"Zed">>}

InitialSheets ==
  {SheetOf([j \in ShiftIndexes |-> IF j = 1 THEN first ELSE <<>>]) : first \in ColumnContents}
    \cup {SheetOf([j \in ShiftIndexes |->
                     IF j <= 2 THEN <<DisplayNames[j]>> ELSE <<>>])}

\* generateShiftChainGraph has not been called
NoSwapGraph ==
  /\ sheetData = <<>>
  /\ col = 0
  /\ swapsFromThis = <<>>
  /\ edgeMatrix = EmptyObject

RunStart ==
  /\ pc = "start"
  /\ shifts = [keys |-> <<>>, val |-> EmptyObject]
  /\ currentAssignments = Undefined
  /\ opt = NewEngine
  /\ earliestTime = NotCached
  /\ solution = NoSolution
  /\ alert = ""
  /\ shiftCounters = EmptyObject
  /\ sheetAtStart = sheet
  /\ runs = 1
  /\ previous = NoPrevious
  /\ NoSwapGraph

\* Tables without Category and Time columns, no time decay
InitMain ==
  /\ \E tiers \in [People -> [ShiftIndexes -> {"Unavailable", "Available", "Preferred"}]] :
       responses = ResponseArray(tiers, EmptyObject)
  /\ \E counts \in [ShiftIndexes -> {<<1, 1>>, <<0, 2>>}] :
       catalog = Catalog([j \in ShiftIndexes |-> <<>>], counts)
  /\ \E hours \in {<<0, 4>>, <<2, 6>>}, additive \in BOOLEAN, preferredGreen \in BOOLEAN :
       config = [idColumn |-> "ID", displayColumn |-> "Name",
                 preferredGreen |-> preferredGreen,
                 minHours |-> hours[1], maxHours |-> hours[2],
                 additive |-> additive, timeScale |-> NoTimeScale]
  /\ sheet \in InitialSheets
  /\ RunStart

\* Tables with a Category column: every category a person names is the
\* category of a shift, as validateParams requires
CategoryCells == {<<>>, Helper, Lead \o Comma \o Helper, TeamLead}

InitCat ==
  /\ \E categories \in [ShiftIndexes -> {<<>>, Lead, Helper, TeamLead}] :
       /\ categories[1] = Lead
       /\ catalog = Catalog(categories, [j \in ShiftIndexes |-> <<0, 2>>])
  /\ \E tiers \in [People -> [ShiftIndexes -> {"Unavailable", "Available"}]],
        cells \in [People -> CategoryCells] :
       /\ \A p \in People :
            cells[p] # <<>> => Range(Split(cells[p])) \subseteq {catalog[j].category : j \in ShiftIndexes}
       /\ responses = ResponseArray(tiers, [h \in {"Category"} |-> cells])
  /\ \E additive \in BOOLEAN :
       config = [idColumn |-> "ID", displayColumn |-> "Name", preferredGreen |-> TRUE,
                 minHours |-> 0, maxHours |-> 6,
                 additive |-> additive, timeScale |-> NoTimeScale]
  /\ sheet \in {SheetOf([j \in ShiftIndexes |-> <<>>]),
                SheetOf([j \in ShiftIndexes |-> IF j = 1 THEN <<DisplayNames[1]>> ELSE <<>>])}
  /\ RunStart

\* Tables with a Time column and a configured deadline
InitTime ==
  /\ \E tiers \in [People -> {"Available", "Preferred", "Recommended"}],
        times \in [People -> 0..MaxTime] :
       responses = ResponseArray([p \in People |->
                                    [j \in ShiftIndexes |->
                                       IF j = 1 THEN tiers[p] ELSE "Unavailable"]],
                                 [h \in {"Time"} |-> times])
  /\ catalog = Catalog([j \in ShiftIndexes |-> <<>>], [j \in ShiftIndexes |-> <<0, 2>>])
  /\ \E deadline \in 0..MaxTime,
        minOnTimePriority \in {Fin(1, 2), Fin(2, 1)},
        latePriority \in {Fin(0, 1), Fin(1, 4)} :
       config = [idColumn |-> "ID", displayColumn |-> "Name", preferredGreen |-> TRUE,
                 minHours |-> 0, maxHours |-> 4, additive |-> FALSE,
                 timeScale |-> [set |-> TRUE, deadline |-> deadline,
                                minOnTimePriority |-> minOnTimePriority,
                                latePriority |-> latePriority]]
  /\ sheet = SheetOf([j \in ShiftIndexes |-> <<>>])
  /\ RunStart

\* Tables with a Time column, with and without a configured deadline, in both
\* modes, over output columns that are empty or hold marked names
InitDecay ==
  /\ \E first \in [People -> {"Available", "Preferred", "Recommended"}],
        second \in [People -> {"Unavailable", "Available"}] :
       responses = ResponseArray([p \in People |->
                                    [j \in ShiftIndexes |->
                                       IF j = 1 THEN first[p] ELSE second[p]]],
                                 [h \in {"Time"} |-> [p \in People |-> 2 * (p - 1)]])
  /\ catalog = Catalog([j \in ShiftIndexes |-> <<>>], [j \in ShiftIndexes |-> <<0, 2>>])
  /\ \E timeScale \in {NoTimeScale, HalfDecay, RisingDecay},
        additive \in BOOLEAN, preferredGreen \in BOOLEAN :
       config = [idColumn |-> "ID", displayColumn |-> "Name",
                 preferredGreen |-> preferredGreen,
                 minHours |-> 0, maxHours |-> 6,
                 additive |-> additive, timeScale |-> timeScale]
  /\ sheet \in {SheetOf([j \in ShiftIndexes |-> <<>>]),
                SheetOf([j \in ShiftIndexes |->
                           IF j <= 2 THEN <<DisplayNames[j]>> ELSE <<>>])}
  /\ RunStart

\* Two people and the one shift AM (min 1, max 1, 4 hours), between 0 and 8
\* hours each, no Category and no Time column
InitScenario ==
  /\ \E tierA \in {"Unavailable", "Available", "Preferred", "Recommended"},
        tierB \in {"Unavailable", "Available", "Preferred", "Recommended"} :
       responses = ResponseArrayFor(<<"AM">>, <<<<tierA>>, <<tierB>>>>, EmptyObject)
  /\ catalog = CatalogFor(<<"AM">>, <<<<>>>>, <<<<1, 1>>>>)
  /\ \E additive \in BOOLEAN, preferredGreen \in BOOLEAN :
       config = [idColumn |-> "ID", displayColumn |-> "Name",
                 preferredGreen |-> preferredGreen,
                 minHours |-> 0, maxHours |-> 8,
                 additive |-> additive, timeScale |-> NoTimeScale]
  /\ \E column \in {<<>>, <<DisplayNames[2]>>, <<DisplayNames[2], DisplayNames[1]>>, <<"Name">>} :
       sheet = [cell \in {<<1, r>> : r \in DOMAIN column} |->
                  [value |-> column[cell[2]], font |-> "#47882b"]]
  /\ RunStart

\* Two shifts under names of letters or of digits, in either catalog order
InitOrder ==
  /\ \E names \in {<<"AM", "PM">>, <<"PM", "AM">>, <<"10", "2">>, <<"2", "10">>,
                    <<"AM", "2">>, <<"10", "AM">>},
        tiers \in [1..2 -> [1..2 -> {"Unavailable", "Available", "Preferred"}]] :
       /\ responses = ResponseArrayFor(names, tiers, EmptyObject)
       /\ catalog = CatalogFor(names, <<<<>>, <<>>>>, <<<<0, 2>>, <<0, 2>>>>)
  /\ \E additive \in BOOLEAN :
       config = [idColumn |-> "ID", displayColumn |-> "Name", preferredGreen |-> TRUE,
                 minHours |-> 0, maxHours |-> 6,
                 additive |-> additive, timeScale |-> NoTimeScale]
  /\ sheet \in {EmptyObject,
                [cell \in {<<1, 1>>} |-> [value |-> DisplayNames[1], font |-> "null"]]}
  /\ RunStart

\* Two people and two shifts whose IDs and shift names are plain or hold the
\* character '_': the response sheet is built as ResponseArrayFor builds it,
\* with the ID column filled from `ids`
InitNames ==
  /\ \E ids \in {<<"p1", "p2">>, <<"a", "a_b">>},
        names \in {<<"AM", "PM">>, <<"b_c", "c">>},
        tiers \in [1..2 -> [1..2 -> {"Unavailable", "Available", "Preferred"}]] :
       /\ responses =
            [i \in DOMAIN ResponseArrayFor(names, tiers, EmptyObject) |->
               IF i = 1 THEN ResponseArrayFor(names, tiers, EmptyObject)[i]
               ELSE [ResponseArrayFor(names, tiers, EmptyObject)[i] EXCEPT !["ID"] = ids[i - 1]]]
       /\ catalog = CatalogFor(names, <<<<>>, <<>>>>, <<<<0, 2>>, <<0, 2>>>>)
  /\ \E additive \in BOOLEAN :
       config = [idColumn |-> "ID", displayColumn |-> "Name", preferredGreen |-> TRUE,
                 minHours |-> 0, maxHours |-> 6,
                 additive |-> additive, timeScale |-> NoTimeScale]
  /\ sheet \in {EmptyObject,
                [cell \in {<<1, 1>>} |-> [value |-> DisplayNames[1], font |-> "null"]]}
  /\ RunStart

\* What a row of the response sheet below the header may be when Validate is
\* chosen: a person's row, a row with a cell left empty, a blank row
RowChoices ==
  {[h \in {"ID", "Name", "AM", "PM"} |->
      IF h = "ID" THEN id ELSE IF h = "Name" THEN name ELSE IF h = "AM" THEN am ELSE pm] :
     id \in {PersonIds[1], PersonIds[2]}, name \in {DisplayNames[1], DisplayNames[2]},
     am \in {"Available", "Unavailable"}, pm \in {"Available", "Unavailable"}}
    \cup {[h \in {"ID", "Name", "AM", "PM"} |-> ""],
          [h \in {"ID", "Name", "AM", "PM"} |-> IF h = "Name" THEN DisplayNames[1] ELSE ""]}

\* Response sheets of MaxRows rows below the header, blank rows among them;
\* the first output column holds names, a number or a name of no row
InitValidate ==
  /\ \E rows \in [1..MaxRows -> RowChoices] :
       responses = <<[h \in {"ID", "Name", "AM", "PM"} |-> h]>> \o rows
  /\ \E counts \in {<<1, 1>>, <<2, 1>>} :
       catalog = CatalogFor(<<"AM", "PM">>, <<<<>>, <<>>>>, <<counts, <<0, 2>>>>)
  /\ \E additive \in BOOLEAN :
       config = [idColumn |-> "ID", displayColumn |-> "Name", preferredGreen |-> TRUE,
                 minHours |-> 0, maxHours |-> 6,
                 additive |-> additive, timeScale |-> NoTimeScale]
  /\ \E column \in {<<>>, <<DisplayNames[1]>>, <<"42">>, <<"Zed">>,
                      <<DisplayNames[1], "42">>, <<DisplayNames[1], DisplayNames[2]>>} :
       sheet = [cell \in {<<1, r>> : r \in DOMAIN column} |->
                  [value |-> column[cell[2]], font |-> "#47882b"]]
  /\ RunStart

\* The names in columns 2, 3 and 5 of the rows of the form responses sheet
SwapNames == <<<<"Ann", "Lee", "25">>, <<"Bob", "Ray", "26">>, <<"Cy", "Fox", "27">>,
               <<"Dee", "Orr", "28">>>>

\* The form responses sheet of the swap chain graph: a header row, then
\* NumSwapRows rows, each with a name and one cell per shift column
InitSwap ==
  /\ \E cells \in [1..NumSwapRows ->
                    [SwapFirstCol..SwapLastCol ->
                       {"Assigned", "Available", "Preferred", "Unavailable"}]] :
       sheetData =
         <<[c \in {2, 3, 5} \cup (SwapFirstCol..SwapLastCol) |-> "header"]>> \o
         [r \in 1..NumSwapRows |->
            [c \in {2, 3, 5} \cup (SwapFirstCol..SwapLastCol) |->
               IF c = 2 THEN SwapNames[r][1]
               ELSE IF c = 3 THEN SwapNames[r][2]
               ELSE IF c = 5 THEN SwapNames[r][3]
               ELSE cells[r][c]]]
  /\ col = SwapFirstCol - 1
  /\ swapsFromThis = <<>>
  /\ edgeMatrix = [pair \in (SwapFirstCol..SwapLastCol) \X (SwapFirstCol..SwapLastCol) |-> 0]
  /\ responses = <<>> /\ catalog = <<>> /\ config = EmptyObject /\ sheet = EmptyObject
  /\ pc = "start"
  /\ shifts = [keys |-> <<>>, val |-> EmptyObject]
  /\ currentAssignments = Undefined
  /\ opt = NewEngine
  /\ earliestTime = NotCached
  /\ solution = NoSolution
  /\ alert = ""
  /\ shiftCounters = EmptyObject
  /\ sheetAtStart = sheet
  /\ runs = 1
  /\ previous = NoPrevious

-----------------------------------------------------------------------------
(* The steps of runSolver *)

\* Mutant: the constructor reads the output slots in every mode
ConstructReadsAlways ==
  /\ pc = "start"
  /\ shifts' = collectParams(catalog)
  /\ opt' = NewEngine
  /\ currentAssignments' =
       [defined |-> TRUE, val |-> readCurrentAssignments(sheet, collectParams(catalog))]
  /\ pc' = "constructed"
  /\ UNCHANGED <<responses, catalog, config, sheet, earliestTime, solution, alert,
                 shiftCounters, sheetAtStart, runs, previous>>
  /\ UNCHANGED swapVars

\* new ShifterProblem()
Construct ==
  /\ pc = "start"
  /\ shifts' = collectParams(catalog)
  /\ opt' = NewEngine
  /\ currentAssignments' =
       IF config.additive
       THEN [defined |-> TRUE, val |-> readCurrentAssignments(sheet, collectParams(catalog))]
       ELSE Undefined
  /\ pc' = "constructed"
  /\ UNCHANGED <<responses, catalog, config, sheet, earliestTime, solution, alert,
                 shiftCounters, sheetAtStart, runs, previous>>
  /\ UNCHANGED swapVars

\* prob.makeAvailabilityVariables()
makeAvailabilityVariables ==
  /\ pc = "constructed"
  /\ LET added == SelectSeq(RowShiftPairs, LAMBDA pair : Eligible(pair[1], pair[2]))
         scored == SelectSeq(RowShiftPairs, Scored)
     IN /\ opt' = [opt EXCEPT
                     !.variables = [i \in DOMAIN added |->
                                      getVariableName(idOf(added[i][1]), added[i][2])],
                     !.objective = [i \in DOMAIN scored |->
                                      [name |-> getVariableName(idOf(scored[i][1]), scored[i][2]),
                                       weight |-> ObjectiveWeight(scored[i][1], scored[i][2])]]]
        /\ earliestTime' = IF config.timeScale.set /\ scored # <<>>
                           THEN [set |-> TRUE, val |-> EarliestTime]
                           ELSE earliestTime
  /\ pc' = "variables"
  /\ UNCHANGED <<responses, catalog, config, sheet, shifts, currentAssignments, solution,
                 alert, shiftCounters, sheetAtStart, runs, previous>>
  /\ UNCHANGED swapVars

\* prob.constrainHoursPerPerson()
constrainHoursPerPerson ==
  /\ pc = "variables"
  /\ opt' = [opt EXCEPT !.constraints =
               @ \o [i \in 1..(Len(responses) - 1) |-> HoursConstraint(i + 1)]]
  /\ pc' = "hours"
  /\ UNCHANGED <<responses, catalog, config, sheet, shifts, currentAssignments,
                 earliestTime, solution, alert, shiftCounters, sheetAtStart, runs, previous>>
  /\ UNCHANGED swapVars

\* prob.constrainCountPerShift()
constrainCountPerShift ==
  /\ pc = "hours"
  /\ opt' = [opt EXCEPT !.constraints =
               @ \o [i \in DOMAIN shifts.keys |-> CountConstraint(shifts.keys[i])]]
  /\ pc' = "counts"
  /\ UNCHANGED <<responses, catalog, config, sheet, shifts, currentAssignments,
                 earliestTime, solution, alert, shiftCounters, sheetAtStart, runs, previous>>
  /\ UNCHANGED swapVars

\* Mutant: the pin is added whether or not currentAssignments is set
constrainExistingAssignmentsAlways ==
  /\ pc = "counts"
  /\ opt' = [opt EXCEPT !.constraints =
               Append(@, IF currentAssignments.defined THEN ExistingConstraint
                         ELSE [lower |-> 0, upper |-> 0,
                               coefficients |-> SetCoefficients(<<>>)])]
  /\ pc' = "Built"
  /\ UNCHANGED <<responses, catalog, config, sheet, shifts, currentAssignments,
                 earliestTime, solution, alert, shiftCounters, sheetAtStart, runs, previous>>
  /\ UNCHANGED swapVars

\* prob.constrainExistingAssignmentsIfAdditive()
constrainExistingAssignmentsIfAdditive ==
  /\ pc = "counts"
  /\ \/ /\ opt' = IF currentAssignments.defined
                  THEN [opt EXCEPT !.constraints = Append(@, ExistingConstraint)]
                  ELSE opt
        /\ pc' = "Built"
        /\ alert' = alert
     \/ \* the engine is free to reject a coefficient for a name never added
        /\ currentAssignments.defined
        /\ ~(DOMAIN ExistingConstraint.coefficients \subseteq Range(opt.variables))
        /\ opt' = opt
        /\ pc' = "Crashed"
        /\ alert' = "exception"
  /\ UNCHANGED <<responses, catalog, config, sheet, shifts, currentAssignments,
                 earliestTime, solution, shiftCounters, sheetAtStart, runs, previous>>
  /\ UNCHANGED swapVars

\* prob.opt.solve(60) is called
solve ==
  /\ pc = "Built"
  /\ pc' = "Solving"
  /\ UNCHANGED <<responses, catalog, config, sheet, shifts, currentAssignments, opt,
                 earliestTime, solution, alert, shiftCounters, sheetAtStart, runs, previous>>
  /\ UNCHANGED swapVars

\* ... and returns: a feasible assignment, or no valid solution (the model is
\* infeasible or the 60 seconds ran out)
solveReturns ==
  /\ pc = "Solving"
  /\ \/ /\ \E value \in ValidSolutions(opt) : solution' = [valid |-> TRUE, value |-> value]
        /\ pc' = "Solved"
     \/ /\ solution' = NoSolution
        /\ pc' = "Infeasible"
  /\ UNCHANGED <<responses, catalog, config, sheet, shifts, currentAssignments, opt,
                 earliestTime, alert, shiftCounters, sheetAtStart, runs, previous>>
  /\ UNCHANGED swapVars

\* Mutant: the valid branch also stamps a cell beside the output columns
runSolverValidStampsSheet ==
  /\ pc = "Solved"
  /\ sheet' = Put(writeSolution(solution).sheet, <<Len(catalog) + 1, 1>>,
                  [value |-> "solved", font |-> "null"])
  /\ shiftCounters' = writeSolution(solution).shiftCounters
  /\ alert' = "Shift scheduling done!"
  /\ pc' = "Done"
  /\ UNCHANGED <<responses, catalog, config, shifts, currentAssignments, opt,
                 earliestTime, solution, sheetAtStart, runs, previous>>
  /\ UNCHANGED swapVars

\* solution.isValid(): prob.writeSolution(solution) and the alert
runSolverValid ==
  /\ pc = "Solved"
  /\ sheet' = writeSolution(solution).sheet
  /\ shiftCounters' = writeSolution(solution).shiftCounters
  /\ alert' = "Shift scheduling done!"
  /\ pc' = "Done"
  /\ UNCHANGED <<responses, catalog, config, shifts, currentAssignments, opt,
                 earliestTime, solution, sheetAtStart, runs, previous>>
  /\ UNCHANGED swapVars

\* Mutant: the failure branch blanks the sheet
runSolverInvalidClears ==
  /\ pc = "Infeasible"
  /\ sheet' = EmptyObject
  /\ alert' = "Failed to solve linear program"
  /\ pc' = "Done"
  /\ UNCHANGED <<responses, catalog, config, shifts, currentAssignments, opt,
                 earliestTime, solution, shiftCounters, sheetAtStart, runs, previous>>
  /\ UNCHANGED swapVars

\* Mutant: the failure branch calls solve again
runSolverInvalidRetries ==
  /\ pc = "Infeasible"
  /\ alert' = "Failed to solve linear program"
  /\ pc' = "Solving"
  /\ UNCHANGED <<responses, catalog, config, sheet, shifts, currentAssignments, opt,
                 earliestTime, solution, shiftCounters, sheetAtStart, runs, previous>>
  /\ UNCHANGED swapVars

\* the else branch of runSolver
runSolverInvalid ==
  /\ pc = "Infeasible"
  /\ alert' = "Failed to solve linear program"
  /\ pc' = "Done"
  /\ UNCHANGED <<responses, catalog, config, sheet, shifts, currentAssignments, opt,
                 earliestTime, solution, shiftCounters, sheetAtStart, runs, previous>>
  /\ UNCHANGED swapVars

\* What the user may do to the Deadline ranges between two runs: leave them,
\* and where the table has a Time column remove them or set them
TimeScaleChoices ==
  IF "Time" \in DOMAIN responses[1]
  THEN {config.timeScale, NoTimeScale, HalfDecay}
  ELSE {config.timeScale}

\* The user picks Solve again, having set the Additive cell and the Deadline
\* ranges as they like
NextRun ==
  /\ pc \in {"Done", "Crashed"}
  /\ runs < MaxRuns
  /\ runs' = runs + 1
  /\ \E additive \in BOOLEAN, timeScale \in TimeScaleChoices :
       config' = [config EXCEPT !.additive = additive, !.timeScale = timeScale]
  /\ pc' = "start"
  /\ shifts' = [keys |-> <<>>, val |-> EmptyObject]
  /\ currentAssignments' = Undefined
  /\ opt' = NewEngine
  /\ earliestTime' = NotCached
  /\ solution' = NoSolution
  /\ alert' = ""
  /\ shiftCounters' = EmptyObject
  /\ sheetAtStart' = sheet
  /\ previous' = [ran |-> TRUE, opt |-> opt, config |-> config,
                   sheetAtStart |-> sheetAtStart, pc |-> pc, solution |-> solution]
  /\ UNCHANGED <<responses, catalog, sheet>>
  /\ UNCHANGED swapVars

Next ==
  \/ Construct
  \/ makeAvailabilityVariables
  \/ constrainHoursPerPerson
  \/ constrainCountPerShift
  \/ constrainExistingAssignmentsIfAdditive
  \/ solve
  \/ solveReturns
  \/ runSolverValid
  \/ runSolverInvalid
  \/ NextRun

Spec == InitMain /\ [][Next]_vars

SpecCat == InitCat /\ [][Next]_vars

SpecTime == InitTime /\ [][Next]_vars

SpecDecay == InitDecay /\ [][Next]_vars

SpecScenario == InitScenario /\ [][Next]_vars

SpecOrder == InitOrder /\ [][Next]_vars

SpecNames == InitNames /\ [][Next]_vars

\* validateParams: the menu item Validate, chosen before a run; its dialog
\* shows the first error or "Looks good!"
validateParams ==
  /\ pc = "start"
  /\ alert = ""
  /\ alert' = ValidationMessage
  /\ UNCHANGED <<responses, catalog, config, sheet, pc, shifts, currentAssignments, opt,
                 earliestTime, solution, shiftCounters, sheetAtStart, runs, previous>>
  /\ UNCHANGED swapVars

\* Validate alone
SpecValidate == InitValidate /\ [][validateParams]_vars

\* Validate, then Solve, on the tables with a Category column
SpecValidateSolve == InitCat /\ [][validateParams \/ Next]_vars

\* One round of the loop of generateShiftChainGraph over the shift columns:
\* the swaps from the next column and their count in the edge matrix
generateShiftChainGraph ==
  /\ col < SwapLastCol
  /\ col' = col + 1
  /\ swapsFromThis' = querySwapsFrom(sheetData, col + 1)
  /\ edgeMatrix' = CountEdges(edgeMatrix, col + 1, querySwapsFrom(sheetData, col + 1))
  /\ UNCHANGED <<responses, catalog, config, sheet, pc, shifts, currentAssignments, opt,
                 earliestTime, solution, alert, shiftCounters, sheetAtStart, runs, previous,
                 sheetData>>

SpecSwap == InitSwap /\ [][generateShiftChainGraph]_vars

-----------------------------------------------------------------------------
(* Properties *)

VariablesMade ==
  pc \in {"variables", "hours", "counts", "Built", "Solving", "Solved", "Infeasible",
          "Done", "Crashed"}

ModelBuilt == pc \in {"Built", "Solving", "Solved", "Infeasible", "Done"}

SolvedValid == pc \in {"Solved", "Done"} /\ solution.valid

\* The categories a person row declares: the comma-separated list of its
\* Category cell, empty without the column or with a blank cell
CategoriesOf(row) ==
  IF "Category" \notin DOMAIN responses[row] THEN {}
  ELSE IF responses[row]["Category"] = <<>> THEN {}
  ELSE Range(Split(responses[row]["Category"]))

\* The (id, shift name) pairs read from the output slots, one per slot
ExistingSlots ==
  UNION {{<<shiftName, i>> : i \in DOMAIN currentAssignments.val[shiftName]} :
           shiftName \in DOMAIN currentAssignments.val}

ExistingName(slot) == getVariableName(currentAssignments.val[slot[1]][slot[2]], slot[1])

\* C1: after makeAvailabilityVariables a variable exists for (P, S) if and
\* only if the tier of (P, S) is not Unavailable and S has no category, or P
\* declares no category, or the category of S is a member of P's
\* comma-separated category list.
C1_EligibilityByMembership ==
  VariablesMade =>
    \A row \in PersonRows : \A shiftName \in Range(shifts.keys) :
      getVariableName(idOf(row), shiftName) \in Range(opt.variables)
        <=> /\ responses[row][shiftName] # "Unavailable"
            /\ \/ shifts.val[shiftName].category = <<>>
               \/ CategoriesOf(row) = {}
               \/ shifts.val[shiftName].category \in CategoriesOf(row)

\* C2: in additive mode every solution the engine reports as valid gives value
\* 1 to the variable of every (person, shift) pair read from the output slots.
C2_ExistingKept ==
  (SolvedValid /\ currentAssignments.defined) =>
    \A slot \in ExistingSlots : getVariableValue(solution, ExistingName(slot)) = 1

C2_Witness ==
  /\ pc = "Done" /\ solution.valid /\ currentAssignments.defined
  /\ Cardinality({ExistingName(slot) : slot \in ExistingSlots}) >= 2
  /\ \A slot \in ExistingSlots : getVariableValue(solution, ExistingName(slot)) = 1

\* The constraints of the built model before the pin: hours, then headcount
BaseConstraints == SubSeq(opt.constraints, 1, (Len(responses) - 1) + Len(shifts.keys))

\* The built model with the pin replaced by one [1, 1] constraint per slot read
PerPairEngine ==
  LET slots == ExistingSlots
      order == CHOOSE seq \in [1..Cardinality(slots) -> slots] : Range(seq) = slots
  IN [opt EXCEPT !.constraints =
        BaseConstraints \o
          [i \in DOMAIN order |->
             [lower |-> 1, upper |-> 1,
              coefficients |-> SetCoefficients(<<<<ExistingName(order[i]), 1>>>>)]]]

\* C3 as stated: the aggregate pin is looser than per-pair pins, the engine is
\* free to change which previously assigned person occupies which shift as
\* long as the total stays N: an assignment that swaps two previously assigned
\* people between their shifts, keeps N of the old people-and-shifts assigned
\* and meets the hours and headcount constraints is a valid solution of the
\* built model.
C3_SwapAdmitted ==
  (pc = "Built" /\ currentAssignments.defined) =>
    \A value \in [Range(opt.variables) -> {0, 1}] :
      \A a \in ExistingSlots : \A b \in ExistingSlots :
        LET idA == currentAssignments.val[a[1]][a[2]]
            idB == currentAssignments.val[b[1]][b[2]]
            swapped == {getVariableName(idA, b[1]), getVariableName(idB, a[1])}
            kept == {ExistingName(slot) : slot \in ExistingSlots \ {a, b}}
        IN (/\ a[1] # b[1] /\ idA # idB
            /\ swapped \cup kept \cup {ExistingName(a), ExistingName(b)}
                 \subseteq Range(opt.variables)
            /\ \A name \in swapped \cup kept : value[name] = 1
            /\ value[ExistingName(a)] = 0 /\ value[ExistingName(b)] = 0
            /\ \A i \in DOMAIN BaseConstraints : Satisfies(opt, BaseConstraints[i], value))
           => value \in ValidSolutions(opt)

\* C3 amended: the aggregate pin is never looser than per-pair pins: every
\* assignment the built model admits also satisfies one [1, 1] constraint per
\* previously assigned pair, so no previously assigned pair can get value 0.
C3_PinNotLooser ==
  (pc = "Built" /\ currentAssignments.defined) =>
    ValidSolutions(opt) \subseteq ValidSolutions(PerPairEngine)

C3_Witness ==
  /\ pc = "Built" /\ currentAssignments.defined
  /\ Cardinality({ExistingName(slot) : slot \in ExistingSlots}) >= 2
  /\ ValidSolutions(opt) # {}
  /\ \E a \in ExistingSlots : \E b \in ExistingSlots :
       /\ a[1] # b[1]
       /\ getVariableName(currentAssignments.val[a[1]][a[2]], b[1]) \in Range(opt.variables)
       /\ getVariableName(currentAssignments.val[b[1]][b[2]], a[1]) \in Range(opt.variables)

\* C4: with additive mode on the last constraint is the pin, bounded to [N, N]
\* for the N slots read, with coefficient 1 on exactly the variables of the
\* pairs read, and every valid solution assigns N of them; with additive mode
\* off the model has the hours and headcount constraints only.
C4_PinShape ==
  ModelBuilt =>
    IF config.additive
    THEN LET pin == opt.constraints[Len(opt.constraints)]
             N == Cardinality(ExistingSlots)
         IN /\ currentAssignments.defined
            /\ Len(opt.constraints) = (Len(responses) - 1) + Len(shifts.keys) + 1
            /\ pin.lower = N /\ pin.upper = N
            /\ DOMAIN pin.coefficients = {ExistingName(slot) : slot \in ExistingSlots}
            /\ \A name \in DOMAIN pin.coefficients : pin.coefficients[name] = 1
            /\ solution.valid =>
                 SumOver(ExistingSlots,
                         [slot \in ExistingSlots |->
                            getVariableValue(solution, ExistingName(slot))]) = N
    ELSE /\ ~currentAssignments.defined
         /\ Len(opt.constraints) = (Len(responses) - 1) + Len(shifts.keys)

C4_Witness ==
  /\ pc = "Done" /\ solution.valid /\ config.additive
  /\ opt.constraints[Len(opt.constraints)].lower = 2
  /\ DOMAIN shiftCounters # {}

\* The number of names writeSolution wrote into the slots of a shift
WrittenCount(shiftName) ==
  IF shiftName \in DOMAIN shiftCounters THEN shiftCounters[shiftName] ELSE 0

\* The person of a row is written in one of the slots the run filled for a shift
WrittenInto(row, shiftName) ==
  \E k \in 0..(WrittenCount(shiftName) - 1) :
    CellValue(sheet, <<shifts.val[shiftName].outputRange[1],
                       shifts.val[shiftName].outputRange[2] + k>>) = displayNameOf(row)

AssignedHours(row) ==
  SumOver({shiftName \in Range(shifts.keys) : WrittenInto(row, shiftName)},
          [shiftName \in Range(shifts.keys) |-> shifts.val[shiftName].hours])

\* C5: after a run with a valid solution the number of names written into the
\* slots of every shift is the number of its eligible pairs with value > 0 and
\* lies between the shift's minimum and maximum.
C5_Headcount ==
  (pc = "Done" /\ solution.valid) =>
    \A shiftName \in Range(shifts.keys) :
      /\ WrittenCount(shiftName) =
           Cardinality({row \in PersonRows :
                          /\ Eligible(row, shiftName)
                          /\ getVariableValue(solution,
                                              getVariableName(idOf(row), shiftName)) > 0})
      /\ shifts.val[shiftName].min <= WrittenCount(shiftName)
      /\ WrittenCount(shiftName) <= shifts.val[shiftName].max

C5_Witness ==
  /\ pc = "Done" /\ solution.valid
  /\ \E shiftName \in Range(shifts.keys) :
       /\ shifts.val[shiftName].min = 1 /\ shifts.val[shiftName].max = 1
       /\ Cardinality({row \in PersonRows : Eligible(row, shiftName)}) = 2
       /\ WrittenCount(shiftName) = 1

\* C6: the constraint of every person row is bounded to [minHours, maxHours]
\* with the shift's hours as coefficient on exactly the row's eligible
\* variables, and after a run with a valid solution the hours of the shifts a
\* person is written into add up to a value in [minHours, maxHours].
C6_Hours ==
  /\ ModelBuilt =>
       \A row \in PersonRows :
         LET c == opt.constraints[row - 1]
         IN /\ c.lower = config.minHours /\ c.upper = config.maxHours
            /\ DOMAIN c.coefficients =
                 {getVariableName(idOf(row), shiftName) :
                    shiftName \in {k \in Range(shifts.keys) : Eligible(row, k)}}
            /\ \A shiftName \in Range(shifts.keys) :
                 Eligible(row, shiftName) =>
                   c.coefficients[getVariableName(idOf(row), shiftName)] =
                     shifts.val[shiftName].hours
  /\ (pc = "Done" /\ solution.valid) =>
       \A row \in PersonRows :
         /\ config.minHours <= AssignedHours(row)
         /\ AssignedHours(row) <= config.maxHours

C6_Witness ==
  /\ pc = "Done" /\ solution.valid
  /\ \E row \in PersonRows :
       /\ Cardinality({shiftName \in Range(shifts.keys) : WrittenInto(row, shiftName)}) = 2
       /\ AssignedHours(row) = config.maxHours

\* C7: when the engine returns no valid solution nothing is written: values
\* and font colours of every cell are what they were when the run started, the
\* failure is reported and the run is over.
C7_NoWriteOnFailure ==
  /\ pc = "Infeasible" => (~solution.valid /\ sheet = sheetAtStart)
  /\ (pc = "Done" /\ ~solution.valid) =>
       /\ sheet = sheetAtStart
       /\ shiftCounters = EmptyObject
       /\ alert = "Failed to solve linear program"

C7_Witness ==
  /\ pc = "Done" /\ ~solution.valid
  /\ alert = "Failed to solve linear program"
  /\ ValidSolutions(opt) = {}
  /\ \E cell \in DOMAIN sheet : sheet[cell].value # "" /\ sheet[cell].font = "#47882b"

\* The least submission time of the table
Earliest == Min({responses[row]["Time"] : row \in PersonRows})

\* C8: with time decay configured and the deadline equal to the earliest
\* submission time, the coefficient of a person who submitted at that time is
\* the tier weight (multiplier 1.0), a well-defined number.
C8_DivisionGuard ==
  (VariablesMade /\ config.timeScale.set /\ config.timeScale.deadline = Earliest) =>
    \A row \in PersonRows : \A shiftName \in Range(shifts.keys) :
      (Scored(<<row, shiftName>>) /\ responses[row]["Time"] = Earliest) =>
        ObjectiveOf(opt, getVariableName(idOf(row), shiftName)) =
          Fin(objectiveTiers[responses[row][shiftName]].obj, 1)

\* C9: with earliest < deadline the coefficient of a variable is the tier
\* weight times 1 - (t - earliest)/(deadline - earliest) * (1 - minOnTimePriority)
\* for t <= deadline (1 at earliest, minOnTimePriority at the deadline) and
\* times latePriority for t > deadline; with earliest 0, deadline 2,
\* minOnTimePriority 1/2 and latePriority 0 (the scenario scaled by 5), t = 1
\* gives 3/4 and t = 3 gives 0.
C9_TimeDecay ==
  (VariablesMade /\ config.timeScale.set /\ Earliest < config.timeScale.deadline) =>
    \A row \in PersonRows : \A shiftName \in Range(shifts.keys) :
      Scored(<<row, shiftName>>) =>
        LET w == ObjectiveOf(opt, getVariableName(idOf(row), shiftName))
            obj == objectiveTiers[responses[row][shiftName]].obj
            t == responses[row]["Time"]
            e == Earliest
            d == config.timeScale.deadline
            m == config.timeScale.minOnTimePriority
            l == config.timeScale.latePriority
        IN /\ w.kind = "fin"
           /\ t > d => w.num * l.den = w.den * obj * l.num
           /\ t <= d => w.num * ((d - e) * m.den) =
                          w.den * obj * ((d - e) * m.den - (t - e) * (m.den - m.num))
           /\ t = e => w = Fin(obj, 1)
           /\ t = d => w.num * m.den = w.den * obj * m.num
           /\ (e = 0 /\ d = 2 /\ m = Fin(1, 2) /\ l = Fin(0, 1)) =>
                /\ t = 1 => w = Fin(3 * obj, 4)
                /\ t = 3 => w = Fin(0, 1)

C9_Witness ==
  /\ VariablesMade /\ config.timeScale.set
  /\ Earliest = 0 /\ config.timeScale.deadline = 2
  /\ config.timeScale.minOnTimePriority = Fin(1, 2)
  /\ config.timeScale.latePriority = Fin(0, 1)
  /\ \E row \in PersonRows :
       /\ responses[row]["Time"] = 1
       /\ responses[row][ShiftNames[1]] = "Preferred"
       /\ ObjectiveOf(opt, getVariableName(idOf(row), ShiftNames[1])) = Fin(3, 4)

\* Two people with the same tier on a shift, the first submitting before the
\* second and both at or before the deadline
OnTimePair(first, second, shiftName) ==
  /\ Scored(<<first, shiftName>>) /\ Scored(<<second, shiftName>>)
  /\ responses[first][shiftName] = responses[second][shiftName]
  /\ responses[first]["Time"] < responses[second]["Time"]
  /\ responses[second]["Time"] <= config.timeScale.deadline

EarlierAtLeastLater(first, second, shiftName) ==
  NumGeq(ObjectiveOf(opt, getVariableName(idOf(first), shiftName)),
         ObjectiveOf(opt, getVariableName(idOf(second), shiftName)))

\* C10 as stated: with time decay enabled, of two people with the same tier on
\* a shift who both submitted at or before the deadline, the earlier one has a
\* coefficient at least that of the later one, for any numeric
\* minOnTimePriority and latePriority.
C10_MonotoneAnyPriority ==
  (VariablesMade /\ config.timeScale.set) =>
    \A first \in PersonRows : \A second \in PersonRows : \A shiftName \in Range(shifts.keys) :
      OnTimePair(first, second, shiftName) => EarlierAtLeastLater(first, second, shiftName)

\* C10 amended: the same, for every configuration whose minOnTimePriority is
\* at most 1.
C10_MonotoneUpToOne ==
  (VariablesMade /\ config.timeScale.set
     /\ NumGeq(Fin(1, 1), config.timeScale.minOnTimePriority)) =>
    \A first \in PersonRows : \A second \in PersonRows : \A shiftName \in Range(shifts.keys) :
      OnTimePair(first, second, shiftName) => EarlierAtLeastLater(first, second, shiftName)

C10_Witness ==
  /\ VariablesMade /\ config.timeScale.set
  /\ NumGeq(Fin(1, 1), config.timeScale.minOnTimePriority)
  /\ \E first \in PersonRows : \E second \in PersonRows :
       /\ OnTimePair(first, second, ShiftNames[1])
       /\ responses[first][ShiftNames[1]] = "Recommended"
       /\ EarlierAtLeastLater(first, second, ShiftNames[1])
       /\ ~EarlierAtLeastLater(second, first, ShiftNames[1])

\* The run before this one ran to its end from the same output slots and the
\* same configuration, the Deadline ranges apart
SameButTimeScale ==
  /\ previous.ran /\ previous.pc = "Done"
  /\ previous.sheetAtStart = sheetAtStart
  /\ [previous.config EXCEPT !.timeScale = config.timeScale] = config

\* C11: two runs over the same table, catalog and output slots whose
\* configurations differ only in the time decay (configured or not, and its
\* values) add the same variables and the same constraints, bounds and
\* coefficients; only the objective coefficients may differ.
C11_DecayOnlyObjective ==
  (ModelBuilt /\ SameButTimeScale) =>
    /\ opt.variables = previous.opt.variables
    /\ opt.constraints = previous.opt.constraints

C11_Witness ==
  /\ pc = "Built" /\ SameButTimeScale
  /\ config.additive
  /\ opt.constraints[Len(opt.constraints)].lower >= 1
  /\ config.timeScale.set /\ ~previous.config.timeScale.set
  /\ opt.objective # previous.opt.objective
  /\ \E row \in PersonRows : responses[row]["Time"] > config.timeScale.deadline

\* C12: two non-additive runs over the same table, catalog and configuration
\* build the same sequence of variables, the same objective coefficients and
\* the same sequence of constraints, whatever the output slots hold and
\* whatever the run before wrote into them.
C12_BuildDeterminism ==
  (/\ ModelBuilt /\ ~config.additive
   /\ previous.ran /\ previous.pc = "Done" /\ previous.config = config) =>
    /\ opt.variables = previous.opt.variables
    /\ opt.objective = previous.opt.objective
    /\ opt.constraints = previous.opt.constraints

C12_Witness ==
  /\ pc = "Built" /\ ~config.additive
  /\ previous.ran /\ previous.pc = "Done" /\ previous.config = config
  /\ config.timeScale.set
  /\ sheetAtStart # previous.sheetAtStart
  /\ previous.sheetAtStart # EmptyObject
  /\ Len(opt.variables) > NumPeople

\* The table rows assigned to a shift by the solution, in table row order
AssignedRows(shiftName) ==
  SelectSeq([i \in 1..(Len(responses) - 1) |-> i + 1],
            LAMBDA row : /\ responses[row][shiftName] # "Unavailable"
                         /\ getVariableValue(solution, getVariableName(idOf(row), shiftName)) > 0)

\* The cell at an offset below the start position of a shift's output slots
SlotAt(shiftName, offset) ==
  <<shifts.val[shiftName].outputRange[1], shifts.val[shiftName].outputRange[2] + offset>>

\* C13: after writeSolution on a valid solution, for every shift with k
\* assigned people the slots at offsets 0..k-1 below its start position hold
\* the display names of those people, the i-th assigned table row at offset
\* i-1, whatever their tiers; the shift's counter is k.
C13_FillOrder ==
  (pc = "Done" /\ solution.valid) =>
    \A shiftName \in Range(shifts.keys) :
      /\ WrittenCount(shiftName) = Len(AssignedRows(shiftName))
      /\ \A i \in DOMAIN AssignedRows(shiftName) :
           CellValue(sheet, SlotAt(shiftName, i - 1)) = displayNameOf(AssignedRows(shiftName)[i])

\* Two people on one shift, the second table row alone on the other, and the
\* first shift's people of different tiers
C13_Witness ==
  /\ pc = "Done" /\ solution.valid
  /\ \E shiftName \in Range(shifts.keys) :
       /\ Len(AssignedRows(shiftName)) = 2
       /\ responses[2][shiftName] = "Available" /\ responses[3][shiftName] = "Preferred"
  /\ \E shiftName \in Range(shifts.keys) : AssignedRows(shiftName) = <<3>>

\* C14: every slot writeSolution wrote is marked (green font) if and only if
\* preferredGreen is on and the tier of the written pair is Preferred or
\* Recommended; in every other case the slot has no mark, whatever mark an
\* earlier run left on it.
C14_Highlight ==
  (pc = "Done" /\ solution.valid) =>
    \A shiftName \in Range(shifts.keys) : \A i \in DOMAIN AssignedRows(shiftName) :
      CellFont(sheet, SlotAt(shiftName, i - 1)) =
        IF /\ config.preferredGreen
           /\ responses[AssignedRows(shiftName)[i]][shiftName] \in {"Preferred", "Recommended"}
        THEN "#47882b"
        ELSE "null"

\* A Recommended pair was marked and a slot marked before the run was cleared
C14_Witness ==
  /\ pc = "Done" /\ solution.valid /\ config.preferredGreen
  /\ \E shiftName \in Range(shifts.keys) : \E i \in DOMAIN AssignedRows(shiftName) :
       /\ responses[AssignedRows(shiftName)[i]][shiftName] = "Recommended"
       /\ CellFont(sheet, SlotAt(shiftName, i - 1)) = "#47882b"
  /\ \E shiftName \in Range(shifts.keys) : \E i \in DOMAIN AssignedRows(shiftName) :
       /\ responses[AssignedRows(shiftName)[i]][shiftName] = "Available"
       /\ CellFont(sheetAtStart, SlotAt(shiftName, i - 1)) = "#47882b"
       /\ CellFont(sheet, SlotAt(shiftName, i - 1)) = "null"

\* The cells in which two sheets differ, by value or by font
ChangedCells(before, after) ==
  {cell \in DOMAIN before \cup DOMAIN after :
     \/ CellValue(before, cell) # CellValue(after, cell)
     \/ CellFont(before, cell) # CellFont(after, cell)}

\* The output slots of the catalog's shifts: from a shift's start position
\* down, as many as its maximum headcount
OutputSlots ==
  UNION {{<<catalog[j].outputRange[1], catalog[j].outputRange[2] + offset>> :
            offset \in 0..(catalog[j].max - 1)} : j \in DOMAIN catalog}

\* C15: no step of a run (model build, solve, write-back) changes the
\* response table, the shift catalog or the configuration; the sheet changes
\* only in the write-back step, and only in output slots of catalog shifts.
C15_Frame ==
  [][pc \notin {"Done", "Crashed"} =>
       /\ responses' = responses /\ catalog' = catalog /\ config' = config
       /\ sheet' # sheet => pc = "Solved"
       /\ ChangedCells(sheet, sheet') \subseteq OutputSlots]_vars

C15_Witness ==
  /\ pc = "Done" /\ solution.valid
  /\ Cardinality(ChangedCells(sheetAtStart, sheet)) >= 2

\* How far a run has come
Stage(position) ==
  CASE position = "start" -> 0
    [] position = "constructed" -> 1
    [] position = "variables" -> 2
    [] position = "hours" -> 3
    [] position = "counts" -> 4
    [] position = "Built" -> 5
    [] position = "Solving" -> 6
    [] position \in {"Solved", "Infeasible"} -> 7
    [] position \in {"Done", "Crashed"} -> 8

\* The engine holds a variable and an objective coefficient for every
\* available pair, one hours constraint per person, one headcount constraint
\* per shift and, in additive mode, the pin
ModelComplete ==
  /\ Range(opt.variables) =
       {getVariableName(idOf(pair[1]), pair[2]) :
          pair \in {p \in PersonRows \X Range(shifts.keys) :
                      responses[p[1]][p[2]] # "Unavailable"}}
  /\ {opt.objective[i].name : i \in DOMAIN opt.objective} = Range(opt.variables)
  /\ Len(opt.constraints) =
       (Len(responses) - 1) + Len(catalog) + (IF config.additive THEN 1 ELSE 0)

RowsWithoutShift ==
  {row \in PersonRows :
     \A shiftName \in Range(shifts.keys) : responses[row][shiftName] = "Unavailable"}

\* C17: a person with no eligible shift gets an hours constraint without
\* terms bounded to [minHours, maxHours]; if minHours > 0 the built model has
\* no feasible assignment, the run ends with the failure message and the
\* sheet is as it was when the run started.
C17_EmptyHoursConstraint ==
  ModelBuilt =>
    \A row \in RowsWithoutShift :
      /\ DOMAIN opt.constraints[row - 1].coefficients = {}
      /\ opt.constraints[row - 1].lower = config.minHours
      /\ opt.constraints[row - 1].upper = config.maxHours
      /\ config.minHours > 0 =>
           /\ ValidSolutions(opt) = {}
           /\ pc # "Solved" /\ ~solution.valid
           /\ pc = "Done" =>
                /\ alert = "Failed to solve linear program"
                /\ sheet = sheetAtStart

\* One person has no shift, the other could work; the run has failed over a
\* sheet that holds names
C17_Witness ==
  /\ pc = "Done" /\ config.minHours > 0
  /\ Cardinality(RowsWithoutShift) = 1
  /\ Len(opt.variables) >= 1
  /\ sheet # EmptyObject
  /\ alert = "Failed to solve linear program"

\* Person A (the first table row) is Preferred and person B Available for the
\* one shift, in a non-additive run
ScenarioAB ==
  /\ responses[2]["AM"] = "Preferred" /\ responses[3]["AM"] = "Available"
  /\ ~config.additive

\* C18: in the scenario the built model is feasible, its objective is 1 for A
\* and 0 for B, every optimal solution assigns A and not B, and the write-back
\* of an optimal solution puts A's display name into the first slot of the
\* shift and writes no second name.
C18_Scenario ==
  ScenarioAB =>
    /\ ModelBuilt =>
         /\ ValidSolutions(opt) # {}
         /\ ObjectiveOf(opt, "p1_AM") = Fin(1, 1) /\ ObjectiveOf(opt, "p2_AM") = Fin(0, 1)
         /\ OptimalSolutions(opt) =
              {[name \in {"p1_AM", "p2_AM"} |-> IF name = "p1_AM" THEN 1 ELSE 0]}
    /\ (pc = "Done" /\ solution.valid /\ solution.value \in OptimalSolutions(opt)) =>
         /\ CellValue(sheet, <<1, 1>>) = "Ann"
         /\ shiftCounters = [name \in {"AM"} |-> 1]
         /\ ChangedCells(sheetAtStart, sheet) \subseteq {<<1, 1>>}

C18_Witness ==
  /\ ScenarioAB /\ pc = "Done" /\ solution.valid
  /\ solution.value \in OptimalSolutions(opt)
  /\ CellValue(sheetAtStart, <<1, 1>>) = "Bob" /\ CellValue(sheet, <<1, 1>>) = "Ann"
  /\ CellValue(sheet, <<1, 2>>) = CellValue(sheetAtStart, <<1, 2>>)

\* The (row, shift name) pairs in table row order and, within a row, in the
\* order of the catalog rows
CatalogOrderPairs ==
  LET k == Len(catalog)
  IN [i \in 1..((Len(responses) - 1) * k) |->
        <<2 + ((i - 1) \div k), catalog[((i - 1) % k) + 1].name>>]

\* The variable names of the available pairs in that order
CatalogOrderNames ==
  LET available == SelectSeq(CatalogOrderPairs,
                             LAMBDA pair : responses[pair[1]][pair[2]] # "Unavailable")
  IN [i \in DOMAIN available |-> getVariableName(idOf(available[i][1]), available[i][2])]

\* C19: variables are created and objective coefficients set in table row
\* order and, within a row, in the order of the catalog rows, for names of
\* letters and names of digits alike; the hours constraints follow in table
\* row order, then the headcount constraints in catalog order.
C19_CatalogOrder ==
  /\ VariablesMade =>
       /\ opt.variables = CatalogOrderNames
       /\ [i \in DOMAIN opt.objective |-> opt.objective[i].name] = CatalogOrderNames
  /\ ModelBuilt =>
       /\ \A row \in PersonRows :
            DOMAIN opt.constraints[row - 1].coefficients =
              {getVariableName(idOf(row), catalog[j].name) :
                 j \in {i \in DOMAIN catalog : responses[row][catalog[i].name] # "Unavailable"}}
       /\ \A j \in DOMAIN catalog :
            DOMAIN opt.constraints[(Len(responses) - 1) + j].coefficients =
              {getVariableName(idOf(row), catalog[j].name) :
                 row \in {r \in PersonRows : responses[r][catalog[j].name] # "Unavailable"}}

\* C19 for the inputs the code handles as stated: the same, when no shift
\* name is a string of digits
C19_CatalogOrderOfLetterNames ==
  (\A j \in DOMAIN catalog : ArrayIndex(catalog[j].name) < 0) => C19_CatalogOrder

\* C20: a pair whose tier is Available (tier weight 0) has a variable, and its
\* objective coefficient is exactly 0, with or without time decay and for
\* every submission time, deadline, minOnTimePriority and latePriority.
C20_ZeroWeightStaysZero ==
  VariablesMade =>
    \A row \in PersonRows : \A shiftName \in Range(shifts.keys) :
      responses[row][shiftName] = "Available" =>
        /\ getVariableName(idOf(row), shiftName) \in Range(opt.variables)
        /\ ObjectiveOf(opt, getVariableName(idOf(row), shiftName)) = Fin(0, 1)

\* The display names of the person rows
PersonNames == {displayNameOf(row) : row \in PersonRows}

\* The maximal contiguous run of person display names from a cell down
RECURSIVE ContiguousNames(_, _)
ContiguousNames(sh, cell) ==
  IF CellValue(sh, cell) \in PersonNames
  THEN <<CellValue(sh, cell)>> \o ContiguousNames(sh, <<cell[1], cell[2] + 1>>)
  ELSE <<>>

\* The display names of the people the solution assigns to a shift, in table
\* row order
AssignedNames(shiftName) ==
  [i \in DOMAIN AssignedRows(shiftName) |-> displayNameOf(AssignedRows(shiftName)[i])]

\* C21: after a run with a valid solution, for every catalog shift the
\* maximal contiguous run of person display names from the shift's start
\* position is exactly the list of the people the solution assigns to it: no
\* name of an earlier run is left, nobody is listed twice, and the list is
\* empty when nobody is assigned.
C21_SlotsReflectRun ==
  (pc = "Done" /\ solution.valid) =>
    \A shiftName \in Range(shifts.keys) :
      ContiguousNames(sheet, SlotAt(shiftName, 0)) = AssignedNames(shiftName)

\* An additive run whose model is built, after a run that ended with a valid
\* solution over the same table, catalog and hours bounds
AdditiveAfterSuccess ==
  /\ ModelBuilt /\ config.additive
  /\ previous.ran /\ previous.pc = "Done" /\ previous.solution.valid

\* C22: the model of an additive run that follows a successful run is
\* feasible, the assignment of the run before satisfies every constraint of
\* it, the pin included, and every valid solution of it contains every
\* assignment of the run before, whatever the output slots held at first.
C22_AdditiveRerun ==
  AdditiveAfterSuccess =>
    /\ previous.solution.value \in ValidSolutions(opt)
    /\ \A value \in ValidSolutions(opt) : \A name \in DOMAIN value :
         previous.solution.value[name] = 1 => value[name] = 1

\* C22 where no name of an earlier run can be left over: the same, when the
\* output slots were empty before the successful run
C22_AdditiveRerunFromEmptySlots ==
  previous.sheetAtStart = EmptyObject => C22_AdditiveRerun

\* The ID of the person row that has a display name
IdOfName(name) == idOf(CHOOSE row \in PersonRows : displayNameOf(row) = name)

\* C23: readCurrentAssignments returns, for every catalog shift, the IDs in
\* slot order of the people whose display names fill the contiguous slots
\* from the shift's start position down to the first cell that is not a
\* person's display name; every ID returned is the ID of a person row, never a
\* value of the header row; and the read is done before any variable or
\* constraint is added.
C23_ExistingRead ==
  /\ pc = "constructed" => opt = NewEngine /\ currentAssignments.defined = config.additive
  /\ currentAssignments.defined =>
       \A shiftName \in Range(shifts.keys) :
         LET names == ContiguousNames(sheetAtStart, SlotAt(shiftName, 0))
         IN /\ currentAssignments.val[shiftName] = [i \in DOMAIN names |-> IdOfName(names[i])]
            /\ Range(currentAssignments.val[shiftName]) \subseteq {idOf(row) : row \in PersonRows}

\* C24: every variable name that receives a coefficient, in the objective, in
\* an hours constraint, in a headcount constraint or in the additive pin, was
\* added as a variable earlier in the run; every existing assignment that the
\* additive pin is about to cover is an eligible pair of the table.
C24_CoefficientsOfVariables ==
  /\ {opt.objective[i].name : i \in DOMAIN opt.objective} \subseteq Range(opt.variables)
  /\ \A i \in DOMAIN opt.constraints :
       DOMAIN opt.constraints[i].coefficients \subseteq Range(opt.variables)
  /\ (pc = "counts" /\ currentAssignments.defined) =>
       \A slot \in ExistingSlots :
         \E row \in PersonRows :
           /\ idOf(row) = currentAssignments.val[slot[1]][slot[2]]
           /\ Eligible(row, slot[1])

\* The (person ID, shift name) pairs of the table and the catalog
IdShiftPairs == {idOf(row) : row \in PersonRows} \X {catalog[j].name : j \in DOMAIN catalog}

\* C25: with unique person IDs and unique shift names, two different
\* (person ID, shift name) pairs never get the same name from
\* getVariableName, also when IDs or shift names contain '_'.
C25_NamesInjective ==
  \A one \in IdShiftPairs, other \in IdShiftPairs :
    getVariableName(one[1], one[2]) = getVariableName(other[1], other[2]) => one = other

\* The cells of a shift's output column that the run changed
ChangedInColumn(shiftName) ==
  {cell \in ChangedCells(sheetAtStart, sheet) : cell[1] = shifts.val[shiftName].outputRange[1]}

\* C26: in a run with a valid solution, for every shift S writeSolution
\* writes only cells at offsets 0..max(S)-1 below S's start position in S's
\* output column, and writes no cell for a shift with no assigned person.
C26_WriteInsideSlots ==
  (pc = "Done" /\ solution.valid) =>
    \A shiftName \in Range(shifts.keys) :
      /\ WrittenCount(shiftName) <= shifts.val[shiftName].max
      /\ ChangedInColumn(shiftName) \subseteq
           {SlotAt(shiftName, offset) : offset \in 0..(shifts.val[shiftName].max - 1)}
      /\ AssignedRows(shiftName) = <<>> =>
           shiftName \notin DOMAIN shiftCounters /\ ChangedInColumn(shiftName) = {}

C26_Witness ==
  /\ pc = "Done" /\ solution.valid
  /\ \E shiftName \in Range(shifts.keys) :
       /\ WrittenCount(shiftName) = shifts.val[shiftName].max
       /\ Cardinality(ChangedInColumn(shiftName)) = shifts.val[shiftName].max
  /\ \E shiftName \in Range(shifts.keys) : AssignedRows(shiftName) = <<>>

\* A row of the table that is not blank
NonBlankRows == {row \in PersonRows : ~RowIsBlank(row)}

\* C27: validateParams reports an error, not success, whenever two non-blank
\* response rows have the same display name, so that after a successful
\* validation display names map one-to-one to the rows the solver processes.
C27_DuplicateNamesRejected ==
  alert = "Looks good!" =>
    \A one \in NonBlankRows, other \in NonBlankRows :
      displayNameOf(one) = displayNameOf(other) => one = other

\* The values of the contiguous non-empty cells from a cell down
RECURSIVE BlockValues(_, _)
BlockValues(sh, cell) ==
  IF CellValue(sh, cell) = "" THEN {}
  ELSE {CellValue(sh, cell)} \cup BlockValues(sh, <<cell[1], cell[2] + 1>>)

\* C28: with Additive TRUE, validateParams reports an error whenever, for
\* some shift, a non-empty output slot in the contiguous block from the
\* shift's start position holds a value that is not a display name of the
\* responses; it accepts only if every such value is a known display name.
C28_ExistingScheduleValidated ==
  (config.additive /\ alert = "Looks good!") =>
    \A j \in DOMAIN catalog :
      BlockValues(sheet, catalog[j].outputRange) \subseteq
        {displayNameOf(row) : row \in NonBlankRows}

\* C29: if validateParams accepts the input, every person row has at least
\* one eligible (person, shift) pair under the solver's rule, so no person's
\* hours constraint is an empty sum.
C29_ValidatedRowsEligible ==
  (alert = "Looks good!" /\ pc \in {"hours", "counts", "Built", "Solving", "Solved", "Infeasible"}) =>
    \A row \in PersonRows :
      /\ \E shiftName \in Range(shifts.keys) : Eligible(row, shiftName)
      /\ DOMAIN opt.constraints[row - 1].coefficients # {}

\* A row may take a shift it marked Available or Preferred
MayTake(row, shiftCol) == sheetData[row][shiftCol] \in {"Available", "Preferred"}

\* The number of the two parties of a swap who marked the other's shift
\* Preferred
Preferring(from, to, fromCol, toCol) ==
  (IF sheetData[from][toCol] = "Preferred" THEN 1 ELSE 0)
    + (IF sheetData[to][fromCol] = "Preferred" THEN 1 ELSE 0)

\* The pairs of rows that can swap between two columns: the first is Assigned
\* to fromCol and may take toCol, the second is Assigned to toCol and may take
\* fromCol
SwapPartners(fromCol, toCol) ==
  {pair \in (2..Len(sheetData)) \X (2..Len(sheetData)) :
     /\ sheetData[pair[1]][fromCol] = "Assigned" /\ MayTake(pair[1], toCol)
     /\ sheetData[pair[2]][toCol] = "Assigned" /\ MayTake(pair[2], fromCol)}

\* C30: every swap returned by querySwapsFrom(data, A) towards a column B has
\* B > A; its fromPerson is a row Assigned to A that is Available or Preferred
\* for B, its toPerson a row Assigned to B that is Available or Preferred for
\* A, and its preference is the number of the two (0, 1 or 2) who marked the
\* other shift Preferred; conversely every such pair of rows yields a swap.
C30_SwapLinks ==
  col >= SwapFirstCol =>
    /\ \A i \in DOMAIN swapsFromThis : swapsFromThis[i].col > col
    /\ Range(swapsFromThis) =
         UNION {{[col |-> toCol,
                  fromPerson |-> formatRowToName(sheetData[pair[1]]),
                  toPerson |-> formatRowToName(sheetData[pair[2]]),
                  preference |-> Preferring(pair[1], pair[2], col, toCol)] :
                   pair \in SwapPartners(col, toCol)} :
                 toCol \in (col + 1)..SwapLastCol}

C30_Witness ==
  /\ col = SwapFirstCol + 1
  /\ \E i \in DOMAIN swapsFromThis : swapsFromThis[i].preference = 2
  /\ \E pair \in (2..Len(sheetData)) \X (2..Len(sheetData)) :
       /\ sheetData[pair[1]][col] = "Assigned" /\ MayTake(pair[1], SwapFirstCol)
       /\ sheetData[pair[2]][SwapFirstCol] = "Assigned" /\ MayTake(pair[2], col)

====
